---------------------------- MODULE Spec2Model ----------------------------
(***************************************************************************)
(* A model of the music-guessing round engine: the App component           *)
(* (src/src/App.tsx: track pool, playlist selection, play again) and the   *)
(* GamePlayer component (src/src/components/GamePlayer.tsx: round state,   *)
(* tick interval, scoring).                                                *)
(*                                                                         *)
(* React conventions of the model.  One action is one event handler (or    *)
(* one resumption of an async handler after its await) together with the   *)
(* re-render it causes and the effects and effect cleanups of that render. *)
(* A closure keeps the state values of the render that created it, so an   *)
(* async handler resumed after its await still reads the playedTracks of   *)
(* the render in which it was called.                                      *)
(*                                                                         *)
(* Numbers.  timer counts tenths of a second (one tick adds 0.1 s).  A     *)
(* similarity is an integer k in 0..SimScale standing for k / SimScale.    *)
(* The score is computed in exact rational arithmetic.                     *)
(***************************************************************************)
EXTENDS Integers, Sequences, FiniteSets, Bags

\* ------------------------------------------------------------------ bounds
MaxInFlight == 2     \* handlePlaylistSelect calls awaiting their fetch
MaxTimer == 2        \* ticks the round timer is followed for (tenths of s)
MaxToggles == 1      \* togglePlayback requests awaiting completion
SimScale == 5        \* similarities are k / SimScale, k in 0..SimScale
MaxElapsed == 320    \* elapsed tenths of a second the scoring run draws from
MaxPool == 3         \* size of the collections of the draw run

\* ---------------------------------------------------------------- universe
NULL == "null"

\* result and sims hold records and pairs; their null is the empty tuple.
NoResult == <<>>

NoSims == <<>>

TrackIds == {"t1", "t2", "t3"}

\* A playlist as the catalog serves it: tracks.total of its metadata and the
\* tracks getPlaylistTracks returns that pass validateTrack, in order.
PlaylistIds == {"pA", "pE", "pN"}

PlaylistTotal(p) ==
    CASE p = "pA" -> 2
      [] p = "pE" -> 0
      [] p = "pN" -> 1

ValidTracks(p) ==
    CASE p = "pA" -> <<"t1", "t2">>
      [] p = "pE" -> <<>>
      [] p = "pN" -> <<>>

TrackName(t) ==
    CASE t = "t1" -> "title1"
      [] t = "t2" -> "title2"
      [] t = "t3" -> "title3"

ArtistName(t) ==
    CASE t = "t1" -> "artist1"
      [] t = "t2" -> "artist2"
      [] t = "t3" -> "artist3"

\* App's error messages
ErrEmpty == "This playlist is empty"
ErrNoPlayable == "No playable tracks found in this playlist"
ErrAllPlayedAsEmpty == "This playlist is empty"

ErrAllPlayed == "You have played all tracks in this playlist!"
ErrFailed == "Failed to load tracks from this playlist"

VARIABLES
    \* App (useState)
    currentTrack,      \* a track id or NULL
    error,             \* an error message or NULL
    currentPlaylist,   \* a playlist id or NULL
    playedTracks,      \* set of track ids
    pending,           \* bag of handlePlaylistSelect calls suspended at the await
    \* GamePlayer (useState / useRef); exists while currentTrack # NULL
    timer,             \* tenths of a second
    isGuessing,
    titleGuess,
    artistGuess,
    result,            \* NoResult or [score, isCorrect]
    interval,          \* [live: armed intervals, ref: intervalRef.current is armed]
    \* usePlayer
    isInitialized,
    isPlaying,
    playerError,
    togglePending,     \* togglePlayback promises not yet settled
    \* observation
    emitted,           \* scores passed to onGameComplete since the round began
    sims,              \* NoSims or the similarities calculateScore computed last
    lastOp,            \* the step taken last: App's handler step and its outcome
    \* the draw run
    poolTracks, poolPlayed, poolDrawn

appVars == <<currentTrack, error, currentPlaylist, playedTracks, pending>>
roundVars == <<timer, isGuessing, titleGuess, artistGuess, result, emitted, sims>>
playerVars == <<isInitialized, isPlaying, playerError, togglePending>>
poolVars == <<poolTracks, poolPlayed, poolDrawn>>
vars == <<appVars, roundVars, interval, playerVars, lastOp, poolVars>>

Op(name, pl, out) == [name |-> name, pl |-> pl, out |-> out]

\* lastOp after a step of GamePlayer or of the player that is no App handler
RoundStep == Op("round", NULL, "-")

\* GamePlayer is rendered exactly while App holds a track (its track prop is
\* not nullable).
Mounted == currentTrack # NULL


\* --------------------------------------------------------------- TrackPool
\* selectRandomTrack: the set of values the call may return.  Math.random()
\* picks any index of availableTracks; `played` is the playedTracks of the
\* closure the call runs in.
selectRandomTrackUnfiltered(tracks, played) ==
    IF Len(tracks) = 0
      THEN {NULL}
      ELSE {tracks[i] : i \in 1..Len(tracks)}

selectRandomTrack(tracks, played) ==
    LET availableTracks == SelectSeq(tracks, LAMBDA t : t \notin played)
    IN  IF Len(availableTracks) = 0
          THEN {NULL}
          ELSE {availableTracks[i] : i \in 1..Len(availableTracks)}

\* setPlayedTracks(prev => new Set([...prev, track.id])): prev is the state
\* at the time the update is applied, closurePlayed the handler's own copy.
AddPlayedStale(prev, closurePlayed, id) == closurePlayed \cup {id}

AddPlayed(prev, closurePlayed, id) == prev \cup {id}

\* ------------------------------------------------------- the tick interval
NoInterval == [live |-> 0, ref |-> FALSE]

\* if (intervalRef.current) window.clearInterval(intervalRef.current)
ClearRefForgets(iv) == [live |-> iv.live, ref |-> FALSE]

ClearRef(iv) ==
    [live |-> IF iv.ref THEN iv.live - 1 ELSE iv.live, ref |-> FALSE]

\* intervalRef.current = window.setInterval(...)
SetIntervalUntracked(iv) == [live |-> iv.live + 1, ref |-> FALSE]

SetInterval(iv) == [live |-> iv.live + 1, ref |-> TRUE]

\* The timer effect re-run after isPlaying, isGuessing or result changed:
\* the previous run's cleanup, then the effect body.
TimerEffectAlwaysArms(iv, active) == SetInterval(ClearRef(iv))

TimerEffect(iv, active) ==
    LET cleaned == ClearRef(iv)
    IN  IF active THEN SetInterval(cleaned) ELSE ClearRef(cleaned)

\* The condition of the timer effect
TimerActiveWhileGuessing(playing, guessing, res) == playing /\ res = NoResult

TimerActive(playing, guessing, res) == playing /\ ~guessing /\ res = NoResult

\* The cleanup of the track effect, run when track or isInitialized changes
TrackEffectCleanup(iv) == ClearRef(iv)

\* Both cleanups at teardown; the next GamePlayer has a fresh intervalRef.
TeardownKeepsInterval(iv) == [live |-> iv.live, ref |-> FALSE]

Teardown(iv) == [live |-> ClearRef(ClearRef(iv)).live, ref |-> FALSE]

\* ------------------------------------------------- GamePlayer as a whole
\* The state a GamePlayer starts with (useState initial values); it is also
\* what the model keeps while no GamePlayer is rendered.
RoundFresh ==
    /\ timer' = 0
    /\ isGuessing' = FALSE
    /\ titleGuess' = ""
    /\ artistGuess' = ""
    /\ result' = NoResult
    /\ emitted' = <<>>
    /\ sims' = NoSims

PlayerFresh ==
    /\ isInitialized' = FALSE
    /\ isPlaying' = FALSE
    /\ playerError' = FALSE
    /\ togglePending' = 0

\* setCurrentTrack(null): GamePlayer, if rendered, is torn down.
GamePlayerGone ==
    /\ RoundFresh
    /\ PlayerFresh
    /\ interval' = Teardown(interval)

\* setCurrentTrack(track): a rendered GamePlayer receives a new track prop
\* (the track effect's cleanup runs, then playTrack if the player is ready);
\* otherwise a GamePlayer is mounted with its initial state.
GamePlayerTrack ==
    IF Mounted
      THEN /\ interval' = TrackEffectCleanup(interval)
           /\ UNCHANGED <<roundVars, playerVars>>
      ELSE /\ RoundFresh
           /\ PlayerFresh
           /\ interval' = [live |-> interval.live, ref |-> FALSE]

\* ---------------------------------------------------------------- App
\* A suspended handlePlaylistSelect call: its argument and the playedTracks
\* of its closure.
Call(playlist, played) == [pl |-> playlist, played |-> played]

\* handlePlaylistSelect up to its await (or its early return), App's part.
SelectStart(playlist) ==
    /\ currentPlaylist' = playlist
    /\ UNCHANGED playedTracks
    /\ IF PlaylistTotal(playlist) = 0
         THEN /\ error' = ErrEmpty
              /\ currentTrack' = NULL
              /\ pending' = pending
         ELSE /\ BagCardinality(pending) < MaxInFlight
              /\ error' = NULL
              /\ currentTrack' = currentTrack
              /\ pending' = pending (+) SetToBag({Call(playlist, playedTracks)})

SelectOutcome(playlist) ==
    IF PlaylistTotal(playlist) = 0 THEN "empty" ELSE "await"

\* The user picks a playlist.
HandlePlaylistSelect(playlist) ==
    /\ SelectStart(playlist)
    /\ IF PlaylistTotal(playlist) = 0
         THEN GamePlayerGone
         ELSE UNCHANGED <<roundVars, interval, playerVars>>
    /\ lastOp' = Op("select", playlist, SelectOutcome(playlist))
    /\ UNCHANGED poolVars

\* handlePlaylistSelect after its await, for a suspended call:
\* the fetch throws
FetchFailed(call) ==
    /\ BagIn(call, pending)
    /\ pending' = pending (-) SetToBag({call})
    /\ error' = ErrFailed
    /\ currentTrack' = NULL
    /\ GamePlayerGone
    /\ lastOp' = Op("resume", call.pl, "failed")
    /\ UNCHANGED <<currentPlaylist, playedTracks, poolVars>>

\* the fetch returns
FetchDone(call) ==
    /\ BagIn(call, pending)
    /\ pending' = pending (-) SetToBag({call})
    /\ UNCHANGED <<currentPlaylist, poolVars>>
    /\ LET validTracks == ValidTracks(call.pl)
       IN  IF Len(validTracks) = 0
             THEN /\ error' = ErrNoPlayable
                  /\ currentTrack' = NULL
                  /\ GamePlayerGone
                  /\ UNCHANGED playedTracks
                  /\ lastOp' = Op("resume", call.pl, "noPlayable")
             ELSE \E track \in selectRandomTrack(validTracks, call.played) :
                    IF track = NULL
                      THEN /\ error' = ErrAllPlayed
                           /\ currentTrack' = NULL
                           /\ GamePlayerGone
                           /\ UNCHANGED playedTracks
                           /\ lastOp' = Op("resume", call.pl, "allPlayed")
                      ELSE /\ playedTracks' =
                                AddPlayed(playedTracks, call.played, track)
                           /\ currentTrack' = track
                           /\ GamePlayerTrack
                           /\ UNCHANGED error
                           /\ lastOp' = Op("resume", call.pl, "drawn")


\* ------------------------------------------------------------- scoring
BonusWindow == 30        \* seconds after which the time bonus is 0
SimilarityWeight == 80
TimeWeight == 20
ScoreFactor == 100
TicksPerSecond == 10     \* one tick adds 0.1 to timer
CorrectTenths == 8       \* isCorrect needs a similarity above 0.8

Max(a, b) == IF a >= b THEN a ELSE b

\* Math.round of the non-negative rational num / den: floor(num/den + 1/2)
Round(num, den) == (2 * num + den) \div (2 * den)

\* Math.max(0, 1 - timer / 30) as a multiple of 1 / (30 * TicksPerSecond)
TimeBonusUnclamped(t) == BonusWindow * TicksPerSecond - t

TimeBonus(t) == Max(0, BonusWindow * TicksPerSecond - t)

\* score of calculateScore:
\*   averageSimilarity = (titleSimilarity + artistSimilarity) / 2
\*   Math.round((averageSimilarity * 80 + timeBonus * 20) * 100)
\* with the similarities k / SimScale and timeBonus = TimeBonus(t) / W.
ScoreOfPercent(titleSimilarity, artistSimilarity, t) ==
    LET W == BonusWindow * TicksPerSecond
    IN  Round(  (titleSimilarity + artistSimilarity) * SimilarityWeight * W
              + 2 * SimScale * TimeBonus(t) * TimeWeight,
              2 * SimScale * W)

ScoreOf(titleSimilarity, artistSimilarity, t) ==
    LET W == BonusWindow * TicksPerSecond
    IN  Round((  (titleSimilarity + artistSimilarity) * SimilarityWeight * W
               + 2 * SimScale * TimeBonus(t) * TimeWeight) * ScoreFactor,
              2 * SimScale * W)

\* titleSimilarity > 0.8 && artistSimilarity > 0.8
IsCorrectLoose(titleSimilarity, artistSimilarity) ==
    /\ 10 * titleSimilarity >= CorrectTenths * SimScale
    /\ 10 * artistSimilarity >= CorrectTenths * SimScale

IsCorrect(titleSimilarity, artistSimilarity) ==
    /\ 10 * titleSimilarity > CorrectTenths * SimScale
    /\ 10 * artistSimilarity > CorrectTenths * SimScale

\* calculateSimilarity(guess, target): the values the call may return, any
\* closeness in [0,1], 1 for equal texts and 0 for an empty guess.
calculateSimilarity(a, b) ==
    IF a = b THEN {SimScale}
    ELSE IF a = "" THEN {0}
    ELSE 0..SimScale

calculateScore(titleSimilarity, artistSimilarity, t) ==
    [score |-> ScoreOf(titleSimilarity, artistSimilarity, t),
     isCorrect |-> IsCorrect(titleSimilarity, artistSimilarity)]

\* What the user may type in the two inputs
TitleInputs == IF Mounted THEN {"", TrackName(currentTrack)} ELSE {}

ArtistInputs == IF Mounted THEN {"", ArtistName(currentTrack)} ELSE {}

\* --------------------------------------------------------------- usePlayer
\* The player reports ready: isInitialized changes, so the track effect
\* runs again (cleanup, then playTrack(track), a request to the player).
PlayerReady ==
    /\ Mounted
    /\ ~isInitialized
    /\ isInitialized' = TRUE
    /\ interval' = TrackEffectCleanup(interval)
    /\ lastOp' = RoundStep
    /\ UNCHANGED <<appVars, roundVars, isPlaying, playerError, togglePending,
                   poolVars>>

\* The player reports that playback started (the requested track, or a
\* resume from the device).
PlaybackStarted ==
    /\ Mounted
    /\ isInitialized
    /\ ~isPlaying
    /\ isPlaying' = TRUE
    /\ interval' = TimerEffect(interval,
                               TimerActive(TRUE, isGuessing, result))
    /\ lastOp' = RoundStep
    /\ UNCHANGED <<appVars, roundVars, isInitialized, playerError,
                   togglePending, poolVars>>

\* The player reports that playback stopped (the track ended, the device
\* paused).
PlaybackStopped ==
    /\ Mounted
    /\ isPlaying
    /\ isPlaying' = FALSE
    /\ interval' = TimerEffect(interval,
                               TimerActive(FALSE, isGuessing, result))
    /\ lastOp' = RoundStep
    /\ UNCHANGED <<appVars, roundVars, isInitialized, playerError,
                   togglePending, poolVars>>

\* The player reports an error: the error slot is set, nothing else.
PlayerErrorEndsGuessing ==
    /\ Mounted
    /\ playerError' = TRUE
    /\ isGuessing' = FALSE
    /\ interval' = TimerEffect(interval, TimerActive(isPlaying, FALSE, result))
    /\ lastOp' = RoundStep
    /\ UNCHANGED <<appVars, timer, titleGuess, artistGuess, result, emitted,
                   sims, isInitialized, isPlaying, togglePending, poolVars>>

PlayerError ==
    /\ Mounted
    /\ playerError' = TRUE
    /\ lastOp' = RoundStep
    /\ UNCHANGED <<appVars, roundVars, interval, isInitialized, isPlaying,
                   togglePending, poolVars>>

\* -------------------------------------------------------------- GamePlayer
\* One callback of an armed interval: setTimer(prev => prev + 0.1)
Tick ==
    /\ Mounted
    /\ interval.live > 0
    /\ timer < MaxTimer
    /\ timer' = timer + 1
    /\ lastOp' = RoundStep
    /\ UNCHANGED <<appVars, isGuessing, titleGuess, artistGuess, result,
                   emitted, sims, interval, playerVars, poolVars>>

\* The round screens: the loader while the player is not ready, the result
\* screen once result is set, the guess form while guessing, else the
\* pause/play button.
ShowsButton == Mounted /\ isInitialized /\ result = NoResult /\ ~isGuessing

ShowsFormBesideResult == Mounted /\ isInitialized /\ isGuessing

ShowsForm == Mounted /\ isInitialized /\ result = NoResult /\ isGuessing

ShowsResult == Mounted /\ isInitialized /\ result # NoResult

\* handlePauseAndGuess up to its await: togglePlayback() is requested.
HandlePauseAndGuess ==
    /\ ShowsButton
    /\ togglePending < MaxToggles
    /\ togglePending' = togglePending + 1
    /\ lastOp' = RoundStep
    /\ UNCHANGED <<appVars, roundVars, interval, isInitialized, isPlaying,
                   playerError, poolVars>>

\* togglePlayback settles (playback toggled, or an error reported) and
\* handlePauseAndGuess resumes: setIsGuessing(true).
TogglePlaybackDone(ok) ==
    /\ Mounted
    /\ togglePending > 0
    /\ togglePending' = togglePending - 1
    /\ isPlaying' = IF ok THEN ~isPlaying ELSE isPlaying
    /\ playerError' = IF ok THEN playerError ELSE TRUE
    /\ isGuessing' = TRUE
    /\ interval' = IF isPlaying' = isPlaying /\ isGuessing
                     THEN interval
                     ELSE TimerEffect(interval,
                                      TimerActive(isPlaying', TRUE, result))
    /\ lastOp' = RoundStep
    /\ UNCHANGED <<appVars, timer, titleGuess, artistGuess, result, emitted,
                   sims, isInitialized, poolVars>>

SetTitleGuess(g) ==
    /\ ShowsForm
    /\ g # titleGuess
    /\ titleGuess' = g
    /\ lastOp' = RoundStep
    /\ UNCHANGED <<appVars, timer, isGuessing, artistGuess, result, emitted,
                   sims, interval, playerVars, poolVars>>

SetArtistGuess(g) ==
    /\ ShowsForm
    /\ g # artistGuess
    /\ artistGuess' = g
    /\ lastOp' = RoundStep
    /\ UNCHANGED <<appVars, timer, isGuessing, titleGuess, result, emitted,
                   sims, interval, playerVars, poolVars>>

\* handleSubmitGuess: setResult(calculateScore()); onGameComplete(score)
HandleSubmitGuess ==
    /\ ShowsForm
    /\ \E titleSimilarity \in
            calculateSimilarity(titleGuess, TrackName(currentTrack)),
          artistSimilarity \in
            calculateSimilarity(artistGuess, ArtistName(currentTrack)) :
         /\ result' = calculateScore(titleSimilarity, artistSimilarity, timer)
         /\ sims' = <<titleSimilarity, artistSimilarity>>
    /\ emitted' = Append(emitted, result'.score)
    /\ interval' = TimerEffect(interval,
                               TimerActive(isPlaying, isGuessing, result'))
    /\ lastOp' = RoundStep
    /\ UNCHANGED <<appVars, timer, isGuessing, titleGuess, artistGuess,
                   playerVars, poolVars>>

\* The five resets of GamePlayer.handlePlayAgain
RoundResetKeepsTimer ==
    /\ timer' = timer
    /\ isGuessing' = FALSE
    /\ titleGuess' = ""
    /\ artistGuess' = ""
    /\ result' = NoResult

RoundReset ==
    /\ timer' = 0
    /\ isGuessing' = FALSE
    /\ titleGuess' = ""
    /\ artistGuess' = ""
    /\ result' = NoResult

\* GamePlayer.handlePlayAgain: the five resets, then onPlayAgain(), which is
\* App.handlePlayAgain: handlePlaylistSelect(currentPlaylist) if there is a
\* current playlist.
HandlePlayAgain ==
    /\ ShowsResult
    /\ IF currentPlaylist # NULL
         THEN SelectStart(currentPlaylist)
         ELSE UNCHANGED appVars
    /\ IF currentTrack' = NULL
         THEN GamePlayerGone
         ELSE /\ RoundReset
              /\ emitted' = <<>>
              /\ sims' = NoSims
              /\ interval' = TimerEffect(interval,
                                         TimerActive(isPlaying, FALSE, NoResult))
              /\ UNCHANGED playerVars
    /\ lastOp' = Op("playAgain", currentPlaylist,
                    IF currentPlaylist = NULL THEN "-"
                    ELSE SelectOutcome(currentPlaylist))
    /\ UNCHANGED poolVars

\* ------------------------------------------------------------ the system
\* App and GamePlayer after construction
SystemInit ==
    /\ currentTrack = NULL
    /\ error = NULL
    /\ currentPlaylist = NULL
    /\ playedTracks = {}
    /\ pending = EmptyBag
    /\ timer = 0
    /\ isGuessing = FALSE
    /\ titleGuess = ""
    /\ artistGuess = ""
    /\ result = NoResult
    /\ emitted = <<>>
    /\ sims = NoSims
    /\ interval = NoInterval
    /\ isInitialized = FALSE
    /\ isPlaying = FALSE
    /\ playerError = FALSE
    /\ togglePending = 0
    /\ lastOp = Op("init", NULL, "-")

Init ==
    /\ SystemInit
    /\ poolTracks = <<>>
    /\ poolPlayed = {}
    /\ poolDrawn = <<>>

Next ==
    \/ \E playlist \in PlaylistIds : HandlePlaylistSelect(playlist)
    \/ \E call \in BagToSet(pending) : FetchFailed(call)
    \/ \E call \in BagToSet(pending) : FetchDone(call)
    \/ PlayerReady
    \/ PlaybackStarted
    \/ PlaybackStopped
    \/ PlayerError
    \/ Tick
    \/ HandlePauseAndGuess
    \/ \E ok \in BOOLEAN : TogglePlaybackDone(ok)
    \/ \E g \in TitleInputs : SetTitleGuess(g)
    \/ \E g \in ArtistInputs : SetArtistGuess(g)
    \/ HandleSubmitGuess
    \/ HandlePlayAgain

Spec == Init /\ [][Next]_vars


\* ------------------------------------------------------ the scoring run
\* calculateScore over its inputs: a round in Guessing on track t1, with any
\* guesses and any elapsed time up to MaxElapsed tenths of a second; the only
\* step is the submit.
InitScore ==
    /\ currentTrack = "t1"
    /\ error = NULL
    /\ currentPlaylist = "pA"
    /\ playedTracks = {"t1"}
    /\ pending = EmptyBag
    /\ timer \in 0..MaxElapsed
    /\ isGuessing = TRUE
    /\ titleGuess \in {"", "x", TrackName("t1")}
    /\ artistGuess \in {"", "x", ArtistName("t1")}
    /\ result = NoResult
    /\ emitted = <<>>
    /\ sims = NoSims
    /\ interval = NoInterval
    /\ isInitialized = TRUE
    /\ isPlaying = FALSE
    /\ playerError = FALSE
    /\ togglePending = 0
    /\ lastOp = RoundStep
    /\ poolTracks = <<>>
    /\ poolPlayed = {}
    /\ poolDrawn = <<>>

NextScore == HandleSubmitGuess

SpecScore == InitScore /\ [][NextScore]_vars

\* --------------------------------------------------------- the draw run
\* selectRandomTrack over its inputs: a collection of up to MaxPool tracks
\* with distinct ids and an initially empty played set; each step draws and,
\* as handlePlaylistSelect does, adds the drawn id to the played set.  The
\* run stops at the first draw that returns null.
PoolIds == {"t1", "t2", "t3", "t4"}

Range(s) == {s[i] : i \in DOMAIN s}

DistinctSeqs(S, n) ==
    {s \in UNION {[1..k -> S] : k \in 0..n} :
        \A i, j \in DOMAIN s : i # j => s[i] # s[j]}

InitPool ==
    /\ SystemInit
    /\ poolTracks \in DistinctSeqs(PoolIds, MaxPool)
    /\ poolPlayed = {}
    /\ poolDrawn = <<>>

PoolDraw ==
    /\ IF poolDrawn = <<>> THEN TRUE ELSE poolDrawn[Len(poolDrawn)] # NULL
    /\ \E track \in selectRandomTrack(poolTracks, poolPlayed) :
         /\ poolDrawn' = Append(poolDrawn, track)
         /\ poolPlayed' = IF track = NULL
                            THEN poolPlayed
                            ELSE AddPlayed(poolPlayed, poolPlayed, track)
    /\ UNCHANGED <<appVars, roundVars, interval, playerVars, lastOp,
                   poolTracks>>

NextPool == PoolDraw

SpecPool == InitPool /\ [][NextPool]_vars


\* ================================================================ claims
\* The round states of GamePlayer
Playing == Mounted /\ isPlaying /\ ~isGuessing /\ result = NoResult

Guessing == Mounted /\ isGuessing /\ result = NoResult

Scored == Mounted /\ result # NoResult

\* The suspended call a step resumed: the one missing from pending afterwards
Resumed(call) ==
    /\ BagIn(call, pending)
    /\ pending' = pending (-) SetToBag({call})

\* C1: a handlePlaylistSelect call never draws, and never makes currentTrack,
\* a track whose id is in playedTracks at the time of the draw, also when two
\* calls are in flight at once.
C1_NeverDrawsPlayed ==
    [][lastOp'.out = "drawn" => currentTrack' \notin playedTracks]_vars

\* C2 as claimed: the score calculateScore stores in result is an integer
\* from 0 to 100.
C2_ScoreWithin0To100 ==
    result # NoResult => result.score \in 0..100

\* C2 as amended: the score is an integer from 0 to 10000, that is
\* (SimilarityWeight + TimeWeight) * ScoreFactor.
C2_ScoreWithin0To10000 ==
    result # NoResult =>
        result.score \in 0..((SimilarityWeight + TimeWeight) * ScoreFactor)

C2_Witness ==
    /\ result # NoResult
    /\ sims = <<SimScale, SimScale>>
    /\ timer = 0
    /\ result.score = 10000

\* C3: once result is set, the round's single onGameComplete call carried
\* result.score, no submit is possible, and result (and the emission) stays
\* as it is in every step but play-again, as long as GamePlayer is rendered.
C3_ResultWriteOnce ==
    /\ [](result # NoResult =>
            /\ emitted = <<result.score>>
            /\ ~ENABLED HandleSubmitGuess)
    /\ [](result = NoResult => emitted = <<>>)
    /\ [][(result # NoResult /\ lastOp'.name # "playAgain"
           /\ currentTrack' # NULL)
          => (result' = result /\ emitted' = emitted)]_vars

C3_Witness ==
    /\ result # NoResult
    /\ emitted = <<result.score>>
    /\ lastOp.out = "drawn"

C5_TimerOnlyTicksWhilePlaying ==
    [][(currentTrack # NULL /\ currentTrack' # NULL /\ timer' # timer)
       => \/ /\ timer' = timer + 1
             /\ isPlaying /\ ~isGuessing /\ result = NoResult
          \/ /\ lastOp'.name = "playAgain"
             /\ timer' = 0]_vars

C5_Witness ==
    /\ Mounted
    /\ timer > 0
    /\ ~isPlaying
    /\ ~isGuessing
    /\ result = NoResult
    /\ interval.live = 0

\* C6: a track supplied while the round is Playing or Guessing resets timer,
\* both guesses, result and isGuessing.
C6_NewTrackResetsRound ==
    [][(lastOp'.out = "drawn" /\ (Playing \/ Guessing))
       => /\ timer' = 0
          /\ titleGuess' = ""
          /\ artistGuess' = ""
          /\ result' = NoResult
          /\ ~isGuessing']_vars

\* C7: handlePlayAgain, taken in Scored, leaves timer 0, both guesses empty,
\* result absent and isGuessing false, and playedTracks keeps every id.
C7_PlayAgainResets ==
    [][lastOp'.name = "playAgain"
       => /\ Scored
          /\ timer' = 0
          /\ titleGuess' = ""
          /\ artistGuess' = ""
          /\ result' = NoResult
          /\ ~isGuessing'
          /\ playedTracks \subseteq playedTracks'
          /\ playedTracks # {}]_vars

C7_Witness ==
    /\ lastOp.name = "playAgain"
    /\ lastOp.out = "await"
    /\ Mounted
    /\ playedTracks = {"t1", "t2"}
    /\ timer = 0
    /\ result = NoResult

\* C8: over a collection of N tracks with distinct ids, starting from an
\* empty played set, the first N draws (each marked played) return N
\* distinct tracks of the collection, the N-th being the one track left, and
\* the draw after them returns null.
C8_DrawsExhaustPool ==
    LET n == Len(poolTracks)
        k == Len(poolDrawn)
    IN  /\ \A i \in 1..k : i <= n => poolDrawn[i] \in Range(poolTracks)
        /\ \A i, j \in 1..k : (i < j /\ j <= n) => poolDrawn[i] # poolDrawn[j]
        /\ (k >= n /\ n >= 1) =>
              Range(poolTracks) \ {poolDrawn[i] : i \in 1..(n - 1)}
                = {poolDrawn[n]}
        /\ k > n => poolDrawn[n + 1] = NULL
        /\ k <= n + 1
        /\ poolPlayed = Range(poolDrawn) \ {NULL}

C8_Witness ==
    /\ Len(poolTracks) = 3
    /\ Len(poolDrawn) = 4
    /\ poolDrawn[4] = NULL
    /\ poolPlayed = Range(poolTracks)

\* C9: a call whose draw finds every valid track of a non-empty collection
\* played reports ErrAllPlayed, which is not the empty-collection message;
\* ErrAllPlayed is reported only then; an empty collection is reported by
\* the step of the selection itself, with no fetch started; and each of the
\* two outcomes leaves currentTrack null and playedTracks unchanged.
C9_ErrorOutcomes ==
    /\ [](lastOp.out = "allPlayed" =>
            /\ error = ErrAllPlayed
            /\ error # ErrEmpty
            /\ currentTrack = NULL
            /\ PlaylistTotal(lastOp.pl) # 0
            /\ Len(ValidTracks(lastOp.pl)) > 0
            /\ Range(ValidTracks(lastOp.pl)) \subseteq playedTracks)
    /\ [](lastOp.out = "empty" =>
            /\ error = ErrEmpty
            /\ currentTrack = NULL
            /\ PlaylistTotal(lastOp.pl) = 0)
    /\ [][lastOp'.out = "empty"
          => (pending' = pending /\ playedTracks' = playedTracks)]_vars
    /\ [][lastOp'.out = "allPlayed" => playedTracks' = playedTracks]_vars
    /\ [][\A call \in BagToSet(pending) :
            (/\ Resumed(call)
             /\ lastOp'.out # "failed"
             /\ Len(ValidTracks(call.pl)) > 0
             /\ Range(ValidTracks(call.pl)) \subseteq call.played)
            => lastOp'.out = "allPlayed"]_vars

C9_Witness ==
    /\ lastOp.out = "allPlayed"
    /\ lastOp.pl = "pA"
    /\ error = ErrAllPlayed
    /\ currentTrack = NULL
    /\ playedTracks = {"t1", "t2"}

\* C10: no step removes an element from playedTracks, whatever the order in
\* which overlapping fetches complete; so playedTracks is never emptied
\* while the selected collection stays the same.
C10_PlayedTracksGrows ==
    /\ [][playedTracks \subseteq playedTracks']_vars
    /\ [][(playedTracks # {} /\ playedTracks' = {})
          => currentPlaylist' # currentPlaylist]_vars

C10_Witness ==
    /\ playedTracks = {"t1", "t2"}
    /\ lastOp.out = "drawn"
    /\ \E call \in BagToSet(pending) : call.played = {}

\* C11: a step in which the player reports an error (the error slot becomes
\* set and no togglePlayback settles) changes none of timer, isGuessing,
\* titleGuess, artistGuess and result and keeps GamePlayer rendered; and with
\* the error slot set the round goes on as without it: the pause-and-guess
\* request is possible whenever the button shows, and the submit whenever
\* the form shows.
C11_PlayerErrorKeepsRound ==
    /\ [][(~playerError /\ playerError' /\ togglePending' = togglePending)
          => /\ UNCHANGED <<timer, isGuessing, titleGuess, artistGuess,
                            result>>
             /\ UNCHANGED <<currentTrack, interval, isPlaying>>]_vars
    /\ []((playerError /\ ShowsButton /\ togglePending < MaxToggles)
            => ENABLED HandlePauseAndGuess)
    /\ []((playerError /\ ShowsForm) => ENABLED HandleSubmitGuess)

\* An error was reported while playing, and the round still got to Scored
\* by a pause that succeeded.
C11_Witness ==
    /\ playerError
    /\ Scored
    /\ ~isPlaying
    /\ timer > 0
    /\ result.isCorrect

\* C12: whenever no GamePlayer is rendered (before the first track, and
\* after a teardown from any round state) no tick interval is armed,
\* intervalRef holds none, no tick can be taken and timer is not above 0.
C12_NoIntervalAfterTeardown ==
    currentTrack = NULL =>
        /\ interval.live = 0
        /\ ~interval.ref
        /\ ~ENABLED Tick
        /\ timer = 0

\* GamePlayer was torn down by a failed fetch after a track had been played
C12_Witness ==
    /\ currentTrack = NULL
    /\ lastOp.out = "failed"
    /\ playedTracks # {}
    /\ interval = NoInterval

\* C13: in every step that keeps GamePlayer rendered and is not play-again,
\* isGuessing stays true once true, result stays as it is once set, timer
\* does not change once isGuessing is true or result is set, Guessing is not
\* followed by Playing and Scored is not followed by Guessing.
C13_RoundMovesForward ==
    [][(currentTrack # NULL /\ currentTrack' # NULL
        /\ lastOp'.name # "playAgain")
       => /\ isGuessing => isGuessing'
          /\ result # NoResult => result' = result
          /\ (isGuessing \/ result # NoResult) => timer' = timer
          /\ Guessing => ~Playing'
          /\ Scored => ~Guessing']_vars

\* Scored after a tick, with playback resumed by the player since the pause
C13_Witness ==
    /\ Scored
    /\ isGuessing
    /\ isPlaying
    /\ timer > 0
    /\ interval.live = 0
    /\ togglePending = 0

\* The score calculateScore gives for a time bonus of 0:
\* Math.round(averageSimilarity * 80 * 100)
SimilarityPart(titleSimilarity, artistSimilarity) ==
    Round((titleSimilarity + artistSimilarity) * SimilarityWeight * ScoreFactor,
          2 * SimScale)

\* C14: the time bonus in a result is 1 at 0 seconds (the score is the
\* similarity part plus TimeWeight * ScoreFactor), 0 at 30 seconds and at
\* every time beyond (the score is the similarity part alone), never
\* negative (the score is never below the similarity part), and
\* non-increasing (a tenth of a second earlier the same guesses score no
\* less).
C14_TimeBonusClamped ==
    result # NoResult =>
        LET similarityPart == SimilarityPart(sims[1], sims[2])
        IN  /\ timer = 0 =>
                  /\ TimeBonus(timer) = BonusWindow * TicksPerSecond
                  /\ result.score = similarityPart + TimeWeight * ScoreFactor
            /\ timer >= BonusWindow * TicksPerSecond =>
                  /\ TimeBonus(timer) = 0
                  /\ result.score = similarityPart
            /\ result.score >= similarityPart
            /\ result.score <= similarityPart + TimeWeight * ScoreFactor
            /\ timer > 0 =>
                  /\ TimeBonus(timer) <= TimeBonus(timer - 1)
                  /\ result.score
                       <= calculateScore(sims[1], sims[2], timer - 1).score

\* A perfect guess submitted after 32 seconds: no bonus is left
C14_Witness ==
    /\ result # NoResult
    /\ timer = MaxElapsed
    /\ timer > BonusWindow * TicksPerSecond
    /\ sims = <<SimScale, SimScale>>
    /\ result.score = SimilarityWeight * ScoreFactor

\* C15: isCorrect of a result is true exactly when the title similarity
\* and the artist similarity are both above 0.8 (4/5), whatever the elapsed
\* time and the score; a similarity of exactly 0.8 on either side gives
\* false.
C15_IsCorrectStrict ==
    result # NoResult =>
        /\ result.isCorrect <=> /\ 5 * sims[1] > 4 * SimScale
                                /\ 5 * sims[2] > 4 * SimScale
        /\ (5 * sims[1] = 4 * SimScale \/ 5 * sims[2] = 4 * SimScale)
              => ~result.isCorrect

\* Title similarity exactly 0.8, artist exact, submitted at once: the score
\* is 9200 of 10000 and isCorrect is false
C15_Witness ==
    /\ result # NoResult
    /\ 5 * sims[1] = 4 * SimScale
    /\ sims[2] = SimScale
    /\ timer = 0
    /\ result.score = 9200
    /\ ~result.isCorrect

\* C16: a pause-and-guess request is taken only while the round is Playing,
\* and the step in which isGuessing becomes true starts in Playing.
C16_GuessingOnlyFromPlaying ==
    /\ [][togglePending' > togglePending => Playing]_vars
    /\ [][(currentTrack' # NULL /\ ~isGuessing /\ isGuessing') => Playing]_vars

\* C17: in every state where GamePlayer is rendered, the player is playing
\* and the round is neither guessing nor scored, a tick interval is armed
\* (so a tick is possible until timer reaches the bound of the model).
C17_PlayingHasInterval ==
    Playing =>
        /\ interval.live > 0
        /\ timer < MaxTimer => ENABLED Tick

\* C18: at most one tick interval is armed in any state, and an armed
\* interval is the one intervalRef holds (so the next clear reaches it
\* before another is armed).
C18_AtMostOneInterval ==
    /\ interval.live \in {0, 1}
    /\ interval.ref <=> interval.live = 1

\* The interval of the first round was cleared for guessing and a new one
\* armed by play-again while the player went on playing
C18_Witness ==
    /\ lastOp.name = "playAgain"
    /\ Mounted
    /\ isPlaying
    /\ interval = [live |-> 1, ref |-> TRUE]

\* C19: the step that follows play-again, unless it supplies the next drawn
\* track or tears GamePlayer down, leaves timer 0, both guesses empty and
\* result absent, whether the player is playing or not.
C19_CleanUntilNextTrack ==
    [][(lastOp.name = "playAgain" /\ currentTrack # NULL
        /\ currentTrack' # NULL /\ lastOp'.out # "drawn")
       => /\ timer' = 0
          /\ titleGuess' = ""
          /\ artistGuess' = ""
          /\ result' = NoResult]_vars

\* C20: in every state where no handlePlaylistSelect call is suspended,
\* currentTrack is null or one of the valid tracks of currentPlaylist, the
\* collection selected last.
C20_TrackOfCurrentPlaylist ==
    (pending = EmptyBag /\ currentTrack # NULL) =>
        IF currentPlaylist = NULL
          THEN FALSE
          ELSE currentTrack \in Range(ValidTracks(currentPlaylist))

=============================================================================
